---- MODULE Spec2Model ----
(***************************************************************************)
(* Key/session lifecycle of the blind-signature issuer                     *)
(* (backend/app/app.py).  Five Flask handlers work on two tables,          *)
(* PermanentStorage (constraint_hash -> keypair) and TemporaryStorage      *)
(* (constraint_hash -> signing session), through the db_methods helpers,   *)
(* and call the libblindr Crypto Engine.                                   *)
(*                                                                         *)
(* A handler is a sequence of steps, one per store call or Crypto Engine   *)
(* call, because each of those calls is a separate round trip and Flask    *)
(* serves requests independently.  A step carries the local control flow   *)
(* that follows its call (the `if` and the `return jsonify(...)`).         *)
(* Spec lets one request run from its first line to its response before    *)
(* the next one starts (requests made one after the other).  SpecConc      *)
(* gives each worker one request and interleaves their steps freely, from  *)
(* any contents of the two tables.  SpecFail runs one request whose        *)
(* Crypto Engine calls may raise.                                          *)
(***************************************************************************)
EXTENDS Naturals, Sequences, FiniteSets

\* ------------------------------------------------------------------ bounds

NumHashes == 2
NumKeys == 2
NumSessions == 2
NumMessages == 1
NumWorkers == 2

Hashes == 1..NumHashes
KeyIds == 1..NumKeys
SessionIds == 1..NumSessions
Messages == 1..NumMessages
Workers == 1..NumWorkers

\* A proof is evidence that one blinded message fits one constraint hash.
Proofs == [blinded_message : Messages, constraint_hash : Hashes]

\* ----------------------------------------------------------- Crypto Engine

\* libblindr.server_generate_keypair(): the (private_key, public_key) pairs
\* the generator can return.
server_generate_keypair ==
    { <<(<<"private_key", k>>), (<<"public_key", k>>)>> : k \in KeyIds }

\* libblindr.server_generate_session(): the (private_value, public_value)
\* pairs the generator can return.
server_generate_session ==
    { <<(<<"private_value", s>>), (<<"public_value", s>>)>> : s \in SessionIds }

\* libblindr.server_sign: a signature is determined by its three arguments.
server_sign(private_key, private_value, blinded_message) ==
    <<"blinded_signature", private_key, private_value, blinded_message>>

\* libblindr.verify_message_fits_constraint: boolean pass/fail.
verify_message_fits_constraint(proof, blinded_message, constraint_hash) ==
    /\ proof.blinded_message = blinded_message
    /\ proof.constraint_hash = constraint_hash

\* ------------------------------------------------------------- the tables

PermanentEntry(private_key, public_key) ==
    [private_key |-> private_key, public_key |-> public_key]

TemporaryEntry(private_value, public_value) ==
    [private_value |-> private_value, public_value |-> public_value]

\* A table maps each constraint_hash to its rows in insertion order; a lookup
\* result is <<>> (None) or <<row>>.
EmptyTable == [h \in Hashes |-> <<>>]

find(table, constraint_hash) ==
    IF table[constraint_hash] = <<>> THEN <<>>
    ELSE <<Head(table[constraint_hash])>>

store(table, constraint_hash, row) ==
    [table EXCEPT ![constraint_hash] = Append(@, row)]

delete(table, constraint_hash) ==
    [table EXCEPT ![constraint_hash] = <<>>]

find_permanent(table, constraint_hash) == find(table, constraint_hash)

store_permanent(table, constraint_hash, private_key, public_key) ==
    store(table, constraint_hash, PermanentEntry(private_key, public_key))

delete_permanent(table, constraint_hash) == delete(table, constraint_hash)

find_temporary(table, constraint_hash) == find(table, constraint_hash)

store_temporary(table, constraint_hash, private_value, public_value) ==
    store(table, constraint_hash, TemporaryEntry(private_value, public_value))

delete_temporary(table, constraint_hash) == delete(table, constraint_hash)

\* -------------------------------------------------------------- responses

jsonify(status, field, value) ==
    [status |-> status, field |-> field, value |-> value]

ConstraintNotFound == jsonify(404, "error", "Constraint hash not found")
SessionNotFound == jsonify(404, "error", "Session not found")
VerificationFailed == jsonify(400, "error", "Verification failed")
Success == jsonify(200, "success", TRUE)

\* What the client receives when a handler raises.
InternalServerError == jsonify(500, "error", "Internal Server Error")

\* Two responses are the same JSON document with the same status.
SameResponse(a, b) ==
    /\ a.status = b.status
    /\ a.field = b.field
    /\ a.value = b.value

\* ------------------------------------------------------------------ state

VARIABLES
    PermanentStorage,   \* Key Store table
    TemporaryStorage,   \* Session Store table
    req,                \* req[w]: the request worker w is handling
    prev                \* the request answered last, until the next one starts

vars == <<PermanentStorage, TemporaryStorage, req, prev>>

NoProof == [blinded_message |-> 0, constraint_hash |-> 0]

\* A worker with no request.
Idle ==
    [op |-> "none", pc |-> "idle",
     constraint_hash |-> 0, blinded_message |-> 0, proof |-> NoProof,
     permanent_entry |-> <<>>, temporary_entry |-> <<>>,
     generated |-> <<>>, engine |-> <<>>, response |-> <<>>,
     pre_permanent |-> EmptyTable, pre_temporary |-> EmptyTable,
     after |-> [op |-> "none", constraint_hash |-> 0,
                engine |-> <<>>, response |-> <<>>]]

\* What is remembered of an answered request.
NoPrev == Idle.after

\* The pairs of calls, first and second, whose results are compared when the
\* second directly follows the first on the same constraint_hash: a repeated
\* generate-keypair, create-sign-session, blind-sign or delete-key, and a
\* blind-sign after a delete-key.
FollowUps ==
    { <<"generate_keypair", "generate_keypair">>,
      <<"create_sign_session", "create_sign_session">>,
      <<"blind_sign", "blind_sign">>,
      <<"delete_key", "delete_key">>,
      <<"delete_key", "blind_sign">> }

\* The request a new request to `op` for constraint_hash is compared with.
Preceding(op, constraint_hash) ==
    IF prev.constraint_hash = constraint_hash /\ <<prev.op, op>> \in FollowUps
    THEN prev ELSE NoPrev

Init ==
    /\ PermanentStorage = EmptyTable
    /\ TemporaryStorage = EmptyTable
    /\ req = [w \in Workers |-> Idle]
    /\ prev = NoPrev

\* request.json of a request to `op`; the request is observed together with
\* the tables as it finds them and the request it follows.
Begin(w, op, pc, constraint_hash, blinded_message, proof) ==
    /\ req[w].pc = "idle"
    /\ req' = [req EXCEPT ![w] =
                 [Idle EXCEPT !.op = op, !.pc = pc,
                              !.constraint_hash = constraint_hash,
                              !.blinded_message = blinded_message,
                              !.proof = proof,
                              !.pre_permanent = PermanentStorage,
                              !.pre_temporary = TemporaryStorage,
                              !.after = Preceding(op, constraint_hash)]]
    /\ prev' = NoPrev
    /\ UNCHANGED <<PermanentStorage, TemporaryStorage>>

\* The handler returns: the response is fixed and the handler is over.
Return(w, response, frame) ==
    req' = [req EXCEPT ![w] = [frame EXCEPT !.pc = "done",
                                            !.response = <<response>>]]

\* The handler of worker w moves on to its next call.
Goto(w, pc, frame) ==
    req' = [req EXCEPT ![w] = [frame EXCEPT !.pc = pc]]

\* The Crypto Engine function `name` has been called by this request.
Called(frame, name) == [frame EXCEPT !.engine = Append(@, name)]

\* The response of a finished request leaves the server.
Deliver(w) ==
    /\ req[w].pc = "done"
    /\ prev' = [op |-> req[w].op, constraint_hash |-> req[w].constraint_hash,
                engine |-> req[w].engine, response |-> req[w].response]
    /\ req' = [req EXCEPT ![w] = Idle]
    /\ UNCHANGED <<PermanentStorage, TemporaryStorage>>

\* ------------------------------------------------------- generate_keypair

generate_keypair_request(w) ==
    \E constraint_hash \in Hashes :
        Begin(w, "generate_keypair", "generate_keypair_find",
              constraint_hash, 0, NoProof)

\* Faulty variant of generate_keypair_find: the `if permanent_entry` early return is
\* missing, so every call generates a keypair.
generate_keypair_find_regenerates(w) ==
    /\ req[w].pc = "generate_keypair_find"
    /\ Goto(w, "generate_keypair_generate",
            [req[w] EXCEPT !.permanent_entry =
                 find_permanent(PermanentStorage, req[w].constraint_hash)])
    /\ UNCHANGED <<PermanentStorage, TemporaryStorage, prev>>

\* permanent_entry = find_permanent(constraint_hash); if permanent_entry: return
generate_keypair_find(w) ==
    /\ req[w].pc = "generate_keypair_find"
    /\ LET permanent_entry ==
               find_permanent(PermanentStorage, req[w].constraint_hash)
           frame == [req[w] EXCEPT !.permanent_entry = permanent_entry]
       IN  IF permanent_entry # <<>>
           THEN Return(w, jsonify(200, "public_key",
                                  permanent_entry[1].public_key), frame)
           ELSE Goto(w, "generate_keypair_generate", frame)
    /\ UNCHANGED <<PermanentStorage, TemporaryStorage, prev>>

\* private_key, public_key = server_generate_keypair()
generate_keypair_generate(w) ==
    /\ req[w].pc = "generate_keypair_generate"
    /\ \E keypair \in server_generate_keypair :
           Goto(w, "generate_keypair_store",
                Called([req[w] EXCEPT !.generated = keypair],
                       "server_generate_keypair"))
    /\ UNCHANGED <<PermanentStorage, TemporaryStorage, prev>>

\* Faulty variant of generate_keypair_generate_raises: the exception is caught,
\* a row without keys is stored and the request is answered as a success.
generate_keypair_generate_raises_swallowed(w) ==
    /\ req[w].pc = "generate_keypair_generate"
    /\ PermanentStorage' =
           store_permanent(PermanentStorage, req[w].constraint_hash, <<>>, <<>>)
    /\ Return(w, jsonify(200, "public_key", <<>>),
              Called(Called(req[w], "server_generate_keypair"), "raise"))
    /\ UNCHANGED <<TemporaryStorage, prev>>

\* server_generate_keypair() raises: the handler is left at the call.
generate_keypair_generate_raises(w) ==
    /\ req[w].pc = "generate_keypair_generate"
    /\ Return(w, InternalServerError,
              Called(Called(req[w], "server_generate_keypair"), "raise"))
    /\ UNCHANGED <<PermanentStorage, TemporaryStorage, prev>>

\* Faulty variant of generate_keypair_store: the two halves of the keypair are
\* swapped in the response.
generate_keypair_store_returns_private(w) ==
    /\ req[w].pc = "generate_keypair_store"
    /\ LET private_key == req[w].generated[1]
           public_key == req[w].generated[2]
       IN  /\ PermanentStorage' =
                  store_permanent(PermanentStorage, req[w].constraint_hash,
                                  private_key, public_key)
           /\ Return(w, jsonify(200, "public_key", private_key), req[w])
    /\ UNCHANGED <<TemporaryStorage, prev>>

\* store_permanent(constraint_hash, private_key, public_key); return public_key
generate_keypair_store(w) ==
    /\ req[w].pc = "generate_keypair_store"
    /\ LET private_key == req[w].generated[1]
           public_key == req[w].generated[2]
       IN  /\ PermanentStorage' =
                  store_permanent(PermanentStorage, req[w].constraint_hash,
                                  private_key, public_key)
           /\ Return(w, jsonify(200, "public_key", public_key), req[w])
    /\ UNCHANGED <<TemporaryStorage, prev>>

generate_keypair(w) ==
    \/ generate_keypair_find(w)
    \/ generate_keypair_generate(w)
    \/ generate_keypair_store(w)

\* ---------------------------------------------------- create_sign_session

create_sign_session_request(w) ==
    \E constraint_hash \in Hashes :
        Begin(w, "create_sign_session", "create_sign_session_find_permanent",
              constraint_hash, 0, NoProof)

\* Faulty variant of create_sign_session_find_permanent: the key check is missing.
create_sign_session_find_permanent_unchecked(w) ==
    /\ req[w].pc = "create_sign_session_find_permanent"
    /\ Goto(w, "create_sign_session_find_temporary", req[w])
    /\ UNCHANGED <<PermanentStorage, TemporaryStorage, prev>>

\* if find_permanent(constraint_hash) is None: return 404
create_sign_session_find_permanent(w) ==
    /\ req[w].pc = "create_sign_session_find_permanent"
    /\ IF find_permanent(PermanentStorage, req[w].constraint_hash) = <<>>
       THEN Return(w, ConstraintNotFound, req[w])
       ELSE Goto(w, "create_sign_session_find_temporary", req[w])
    /\ UNCHANGED <<PermanentStorage, TemporaryStorage, prev>>

\* Faulty variant of create_sign_session_find_temporary: an existing session is not
\* returned, a new one is generated on every call.
create_sign_session_find_temporary_regenerates(w) ==
    /\ req[w].pc = "create_sign_session_find_temporary"
    /\ Goto(w, "create_sign_session_generate",
            [req[w] EXCEPT !.temporary_entry =
                 find_temporary(TemporaryStorage, req[w].constraint_hash)])
    /\ UNCHANGED <<PermanentStorage, TemporaryStorage, prev>>

\* temp_entry = find_temporary(constraint_hash); if temp_entry: return
create_sign_session_find_temporary(w) ==
    /\ req[w].pc = "create_sign_session_find_temporary"
    /\ LET temp_entry ==
               find_temporary(TemporaryStorage, req[w].constraint_hash)
           frame == [req[w] EXCEPT !.temporary_entry = temp_entry]
       IN  IF temp_entry # <<>>
           THEN Return(w, jsonify(200, "public_value",
                                  temp_entry[1].public_value), frame)
           ELSE Goto(w, "create_sign_session_generate", frame)
    /\ UNCHANGED <<PermanentStorage, TemporaryStorage, prev>>

\* private_value, public_value = server_generate_session()
create_sign_session_generate(w) ==
    /\ req[w].pc = "create_sign_session_generate"
    /\ \E session \in server_generate_session :
           Goto(w, "create_sign_session_store",
                Called([req[w] EXCEPT !.generated = session],
                       "server_generate_session"))
    /\ UNCHANGED <<PermanentStorage, TemporaryStorage, prev>>

\* server_generate_session() raises: the handler is left at the call.
create_sign_session_generate_raises(w) ==
    /\ req[w].pc = "create_sign_session_generate"
    /\ Return(w, InternalServerError,
              Called(Called(req[w], "server_generate_session"), "raise"))
    /\ UNCHANGED <<PermanentStorage, TemporaryStorage, prev>>

\* Faulty variant of create_sign_session_store: when the hash already has a
\* session row, only its private_value column is overwritten.
create_sign_session_store_partial_update(w) ==
    /\ req[w].pc = "create_sign_session_store"
    /\ LET private_value == req[w].generated[1]
           public_value == req[w].generated[2]
           stored == TemporaryStorage[req[w].constraint_hash]
       IN  /\ TemporaryStorage' =
                  IF stored = <<>>
                  THEN store_temporary(TemporaryStorage, req[w].constraint_hash,
                                       private_value, public_value)
                  ELSE [TemporaryStorage EXCEPT ![req[w].constraint_hash] =
                            <<TemporaryEntry(private_value,
                                             stored[1].public_value)>>]
           /\ Return(w, jsonify(200, "public_value", public_value), req[w])
    /\ UNCHANGED <<PermanentStorage, prev>>

\* store_temporary(constraint_hash, private_value, public_value); return
create_sign_session_store(w) ==
    /\ req[w].pc = "create_sign_session_store"
    /\ LET private_value == req[w].generated[1]
           public_value == req[w].generated[2]
       IN  /\ TemporaryStorage' =
                  store_temporary(TemporaryStorage, req[w].constraint_hash,
                                  private_value, public_value)
           /\ Return(w, jsonify(200, "public_value", public_value), req[w])
    /\ UNCHANGED <<PermanentStorage, prev>>

create_sign_session(w) ==
    \/ create_sign_session_find_permanent(w)
    \/ create_sign_session_find_temporary(w)
    \/ create_sign_session_generate(w)
    \/ create_sign_session_store(w)

\* ----------------------------------------------------- close_sign_session

close_sign_session_request(w) ==
    \E constraint_hash \in Hashes :
        Begin(w, "close_sign_session", "close_sign_session_delete",
              constraint_hash, 0, NoProof)

\* Faulty variant of close_sign_session_delete: closing the session also
\* deletes the key of the hash.
close_sign_session_delete_wipes_key(w) ==
    /\ req[w].pc = "close_sign_session_delete"
    /\ TemporaryStorage' =
           delete_temporary(TemporaryStorage, req[w].constraint_hash)
    /\ PermanentStorage' =
           delete_permanent(PermanentStorage, req[w].constraint_hash)
    /\ Return(w, jsonify(200, "success", TRUE), req[w])
    /\ UNCHANGED prev

\* Faulty variant of close_sign_session_delete: closing a session that does not exist
\* is reported as an error.
close_sign_session_delete_strict(w) ==
    /\ req[w].pc = "close_sign_session_delete"
    /\ TemporaryStorage' =
           delete_temporary(TemporaryStorage, req[w].constraint_hash)
    /\ IF find_temporary(TemporaryStorage, req[w].constraint_hash) = <<>>
       THEN Return(w, jsonify(404, "error", "Session not found"), req[w])
       ELSE Return(w, jsonify(200, "success", TRUE), req[w])
    /\ UNCHANGED <<PermanentStorage, prev>>

\* delete_temporary(constraint_hash); return jsonify(success=True)
close_sign_session_delete(w) ==
    /\ req[w].pc = "close_sign_session_delete"
    /\ TemporaryStorage' =
           delete_temporary(TemporaryStorage, req[w].constraint_hash)
    /\ Return(w, Success, req[w])
    /\ UNCHANGED <<PermanentStorage, prev>>

close_sign_session(w) == close_sign_session_delete(w)

\* ------------------------------------------------------------- blind_sign

blind_sign_request(w) ==
    \E constraint_hash \in Hashes, blinded_message \in Messages,
       proof \in Proofs :
        Begin(w, "blind_sign", "blind_sign_find_temporary",
              constraint_hash, blinded_message, proof)

\* Faulty variant of blind_sign_find_temporary: the key is looked up and checked before
\* the session.
blind_sign_find_temporary_key_first(w) ==
    /\ req[w].pc = "blind_sign_find_temporary"
    /\ LET temporary_entry ==
               find_temporary(TemporaryStorage, req[w].constraint_hash)
           frame == [req[w] EXCEPT !.temporary_entry = temporary_entry]
       IN  IF find_permanent(PermanentStorage, req[w].constraint_hash) = <<>>
           THEN Return(w, jsonify(404, "error", "Constraint hash not found"),
                       frame)
           ELSE IF temporary_entry = <<>>
           THEN Return(w, jsonify(404, "error", "Session not found"), frame)
           ELSE Goto(w, "blind_sign_find_permanent", frame)
    /\ UNCHANGED <<PermanentStorage, TemporaryStorage, prev>>

\* temporary_entry = find_temporary(constraint_hash); None: return 404
blind_sign_find_temporary(w) ==
    /\ req[w].pc = "blind_sign_find_temporary"
    /\ LET temporary_entry ==
               find_temporary(TemporaryStorage, req[w].constraint_hash)
           frame == [req[w] EXCEPT !.temporary_entry = temporary_entry]
       IN  IF temporary_entry = <<>>
           THEN Return(w, SessionNotFound, frame)
           ELSE Goto(w, "blind_sign_find_permanent", frame)
    /\ UNCHANGED <<PermanentStorage, TemporaryStorage, prev>>

\* Faulty variant of blind_sign_find_permanent: the lookup is not filtered by
\* constraint_hash and takes the first key of the table.
blind_sign_find_permanent_unfiltered(w) ==
    /\ req[w].pc = "blind_sign_find_permanent"
    /\ LET stored == {h \in Hashes : PermanentStorage[h] # <<>>}
           first == CHOOSE h \in stored : \A g \in stored : h <= g
           permanent_entry ==
               IF stored = {} THEN <<>> ELSE find_permanent(PermanentStorage, first)
           frame == [req[w] EXCEPT !.permanent_entry = permanent_entry]
       IN  IF permanent_entry = <<>>
           THEN Return(w, jsonify(404, "error", "Constraint hash not found"),
                       frame)
           ELSE Goto(w, "blind_sign_verify", frame)
    /\ UNCHANGED <<PermanentStorage, TemporaryStorage, prev>>

\* permanent_entry = find_permanent(constraint_hash); None: return 404
blind_sign_find_permanent(w) ==
    /\ req[w].pc = "blind_sign_find_permanent"
    /\ LET permanent_entry ==
               find_permanent(PermanentStorage, req[w].constraint_hash)
           frame == [req[w] EXCEPT !.permanent_entry = permanent_entry]
       IN  IF permanent_entry = <<>>
           THEN Return(w, ConstraintNotFound, frame)
           ELSE Goto(w, "blind_sign_verify", frame)
    /\ UNCHANGED <<PermanentStorage, TemporaryStorage, prev>>

\* Faulty variant of blind_sign_verify: the signature is computed before the proof is
\* checked, and dropped when the proof fails.
blind_sign_verify_signs_first(w) ==
    /\ req[w].pc = "blind_sign_verify"
    /\ LET is_valid ==
               verify_message_fits_constraint(req[w].proof,
                                              req[w].blinded_message,
                                              req[w].constraint_hash)
           frame == Called(req[w], "verify_message_fits_constraint")
       IN  IF ~is_valid
           THEN Return(w, jsonify(400, "error", "Verification failed"),
                       Called(frame, "server_sign"))
           ELSE Goto(w, "blind_sign_sign", frame)
    /\ UNCHANGED <<PermanentStorage, TemporaryStorage, prev>>

\* is_valid = verify_message_fits_constraint(...); not is_valid: return 400
blind_sign_verify(w) ==
    /\ req[w].pc = "blind_sign_verify"
    /\ LET is_valid ==
               verify_message_fits_constraint(req[w].proof,
                                              req[w].blinded_message,
                                              req[w].constraint_hash)
           frame == Called(req[w], "verify_message_fits_constraint")
       IN  IF ~is_valid
           THEN Return(w, VerificationFailed, frame)
           ELSE Goto(w, "blind_sign_sign", frame)
    /\ UNCHANGED <<PermanentStorage, TemporaryStorage, prev>>

\* Faulty variant of blind_sign_sign: a session is used once, signing deletes it.
blind_sign_sign_consumes_session(w) ==
    /\ req[w].pc = "blind_sign_sign"
    /\ LET private_key == req[w].permanent_entry[1].private_key
           private_value == req[w].temporary_entry[1].private_value
           blinded_signature ==
               server_sign(private_key, private_value, req[w].blinded_message)
       IN  Return(w, jsonify(200, "blinded_signature", blinded_signature),
                  Called(req[w], "server_sign"))
    /\ TemporaryStorage' =
           delete_temporary(TemporaryStorage, req[w].constraint_hash)
    /\ UNCHANGED <<PermanentStorage, prev>>

\* blinded_signature = server_sign(private_key, private_value, blinded_message)
blind_sign_sign(w) ==
    /\ req[w].pc = "blind_sign_sign"
    /\ LET private_key == req[w].permanent_entry[1].private_key
           private_value == req[w].temporary_entry[1].private_value
           blinded_signature ==
               server_sign(private_key, private_value, req[w].blinded_message)
       IN  Return(w, jsonify(200, "blinded_signature", blinded_signature),
                  Called(req[w], "server_sign"))
    /\ UNCHANGED <<PermanentStorage, TemporaryStorage, prev>>

blind_sign(w) ==
    \/ blind_sign_find_temporary(w)
    \/ blind_sign_find_permanent(w)
    \/ blind_sign_verify(w)
    \/ blind_sign_sign(w)

\* ------------------------------------------------------------- delete_key

delete_key_request(w) ==
    \E constraint_hash \in Hashes :
        Begin(w, "delete_key", "delete_key_find", constraint_hash, 0, NoProof)

\* verify_message_fits_constraint(...) raises: the handler is left at the call.
blind_sign_verify_raises(w) ==
    /\ req[w].pc = "blind_sign_verify"
    /\ Return(w, InternalServerError,
              Called(Called(req[w], "verify_message_fits_constraint"), "raise"))
    /\ UNCHANGED <<PermanentStorage, TemporaryStorage, prev>>

\* server_sign(...) raises: the handler is left at the call.
blind_sign_sign_raises(w) ==
    /\ req[w].pc = "blind_sign_sign"
    /\ Return(w, InternalServerError,
              Called(Called(req[w], "server_sign"), "raise"))
    /\ UNCHANGED <<PermanentStorage, TemporaryStorage, prev>>

\* Faulty variant of delete_key_find: the existence check is missing, deleting an
\* unknown key succeeds.
delete_key_find_unchecked(w) ==
    /\ req[w].pc = "delete_key_find"
    /\ Goto(w, "delete_key_delete", req[w])
    /\ UNCHANGED <<PermanentStorage, TemporaryStorage, prev>>

\* if find_permanent(constraint_hash) is None: return 404
delete_key_find(w) ==
    /\ req[w].pc = "delete_key_find"
    /\ IF find_permanent(PermanentStorage, req[w].constraint_hash) = <<>>
       THEN Return(w, ConstraintNotFound, req[w])
       ELSE Goto(w, "delete_key_delete", req[w])
    /\ UNCHANGED <<PermanentStorage, TemporaryStorage, prev>>

\* Faulty variant of delete_key_delete: deleting a key also deletes its session.
delete_key_delete_cascades(w) ==
    /\ req[w].pc = "delete_key_delete"
    /\ PermanentStorage' =
           delete_permanent(PermanentStorage, req[w].constraint_hash)
    /\ TemporaryStorage' =
           delete_temporary(TemporaryStorage, req[w].constraint_hash)
    /\ Return(w, jsonify(200, "success", TRUE), req[w])
    /\ UNCHANGED prev

\* Faulty variant of delete_key_delete: the delete is not filtered by
\* constraint_hash and empties the Key Store.
delete_key_delete_unfiltered(w) ==
    /\ req[w].pc = "delete_key_delete"
    /\ PermanentStorage' = EmptyTable
    /\ Return(w, Success, req[w])
    /\ UNCHANGED <<TemporaryStorage, prev>>

\* delete_permanent(constraint_hash); return jsonify(success=True)
delete_key_delete(w) ==
    /\ req[w].pc = "delete_key_delete"
    /\ PermanentStorage' =
           delete_permanent(PermanentStorage, req[w].constraint_hash)
    /\ Return(w, Success, req[w])
    /\ UNCHANGED <<TemporaryStorage, prev>>

delete_key(w) ==
    \/ delete_key_find(w)
    \/ delete_key_delete(w)

\* ---------------------------------------------------------- specification

\* No request is being handled.
Quiet == \A w \in Workers : req[w].pc = "idle"

\* A request arrives at worker w.
Request(w) ==
    \/ generate_keypair_request(w)
    \/ create_sign_session_request(w)
    \/ close_sign_session_request(w)
    \/ blind_sign_request(w)
    \/ delete_key_request(w)

\* The handler of worker w takes its next step.
Handle(w) ==
    \/ generate_keypair(w)
    \/ create_sign_session(w)
    \/ close_sign_session(w)
    \/ blind_sign(w)
    \/ delete_key(w)

\* Workers are interchangeable: a request is taken by the first idle one.
FirstIdle(w) ==
    /\ req[w].pc = "idle"
    /\ \A v \in Workers : req[v].pc = "idle" => w <= v

\* Requests made one after the other: a request starts when none is running.
Next ==
    \E w \in Workers :
        \/ Quiet /\ FirstIdle(w) /\ Request(w)
        \/ Handle(w)
        \/ Deliver(w)

Spec == Init /\ [][Next]_vars

\* ------------------------------------------------------------ observation

\* Worker w has finished a request to `op`; its response is not yet delivered.
Finished(w, op) == req[w].op = op /\ req[w].pc = "done"

Response(w) == req[w].response[1]

\* How many times a request called the Crypto Engine function `name`.
Calls(engine, name) == Cardinality({i \in DOMAIN engine : engine[i] = name})

\* Neither table differs from what the request of worker w found.
StoresUntouched(w) ==
    /\ PermanentStorage = req[w].pre_permanent
    /\ TemporaryStorage = req[w].pre_temporary

\* The entries the request of worker w found for its own constraint_hash.
HadKey(w) == req[w].pre_permanent[req[w].constraint_hash] # <<>>
HadSession(w) == req[w].pre_temporary[req[w].constraint_hash] # <<>>

\* The request of worker w directly follows an answered request to `op` for
\* the same constraint_hash.
Follows(w, op) ==
    /\ req[w].after.op = op
    /\ req[w].after.constraint_hash = req[w].constraint_hash

\* What that earlier request answered, and its Crypto Engine calls.
Before(w) == req[w].after.response[1]
BeforeEngine(w) == req[w].after.engine

IsOk(response, field) == response.status = 200 /\ response.field = field

\* ------------------------------------------------------------------ claims

\* C1: generate-keypair is idempotent.  Two generate-keypair calls in a row
\* for one constraint_hash both succeed with the same public_key, the second
\* leaves the stored PermanentEntry as the first left it, and the keypair
\* generator runs at most once over the two calls.  More generally a call
\* that finds a PermanentEntry returns its public_key, generates nothing and
\* writes nothing.
C1_GenerateKeypairIdempotent ==
    \A w \in Workers :
        Finished(w, "generate_keypair") =>
            /\ IsOk(Response(w), "public_key")
            /\ Calls(req[w].engine, "server_generate_keypair") <= 1
            /\ HadKey(w) =>
                   /\ Response(w).value =
                          req[w].pre_permanent[req[w].constraint_hash][1].public_key
                   /\ req[w].engine = <<>>
                   /\ StoresUntouched(w)
            /\ Follows(w, "generate_keypair") =>
                   /\ IsOk(Before(w), "public_key")
                   /\ Response(w).value = Before(w).value
                   /\ PermanentStorage = req[w].pre_permanent
                   /\ Calls(BeforeEngine(w), "server_generate_keypair")
                          + Calls(req[w].engine, "server_generate_keypair") <= 1

\* C1 witness: the second of two generate-keypair calls for one hash has
\* answered, and the first one generated the keypair.
C1_Witness ==
    \E w \in Workers :
        /\ Finished(w, "generate_keypair")
        /\ Follows(w, "generate_keypair")
        /\ Calls(BeforeEngine(w), "server_generate_keypair") = 1

\* C2: create-sign-session is idempotent.  Two create-sign-session calls in a
\* row for a constraint_hash that has a PermanentEntry return the same
\* public_value; the second does not call the session generator and leaves
\* the stored TemporaryEntry unchanged.
C2_CreateSessionIdempotent ==
    \A w \in Workers :
        (/\ Finished(w, "create_sign_session")
         /\ Follows(w, "create_sign_session")
         /\ HadKey(w)) =>
            /\ IsOk(Before(w), "public_value")
            /\ IsOk(Response(w), "public_value")
            /\ Response(w).value = Before(w).value
            /\ Calls(req[w].engine, "server_generate_session") = 0
            /\ TemporaryStorage = req[w].pre_temporary
            /\ Len(TemporaryStorage[req[w].constraint_hash]) = 1
            /\ TemporaryStorage[req[w].constraint_hash][1].public_value =
                   Response(w).value

\* C2 witness: the second of two create-sign-session calls for a hash with a
\* key has answered, and the first one generated the session.
C2_Witness ==
    \E w \in Workers :
        /\ Finished(w, "create_sign_session")
        /\ Follows(w, "create_sign_session")
        /\ HadKey(w)
        /\ Calls(BeforeEngine(w), "server_generate_session") = 1

\* C3: create-sign-session for a constraint_hash with no PermanentEntry
\* answers 404 "Constraint hash not found", whatever happened before; it does
\* not call the session generator and changes neither table.
C3_CreateSessionNeedsKey ==
    \A w \in Workers :
        (Finished(w, "create_sign_session") /\ ~HadKey(w)) =>
            /\ SameResponse(Response(w), ConstraintNotFound)
            /\ Response(w).status = 404
            /\ Response(w).value = "Constraint hash not found"
            /\ req[w].engine = <<>>
            /\ StoresUntouched(w)

\* C3 witness: create-sign-session has answered for a hash without a key
\* although an earlier session of that hash is still stored (its key was
\* deleted), while another hash has a key.
C3_Witness ==
    \E w \in Workers :
        /\ Finished(w, "create_sign_session")
        /\ ~HadKey(w)
        /\ HadSession(w)
        /\ \E h \in Hashes : PermanentStorage[h] # <<>>

\* Whether the proof of the blind-sign request of worker w verifies.
ProofVerifies(w) ==
    verify_message_fits_constraint(req[w].proof, req[w].blinded_message,
                                   req[w].constraint_hash)

\* C4: blind-sign reports SessionNotFound before ConstraintNotFound before
\* VerificationFailed.  With no TemporaryEntry the answer is SessionNotFound
\* whether or not a PermanentEntry exists or the proof verifies;
\* ConstraintNotFound is answered exactly when the TemporaryEntry exists and
\* the PermanentEntry does not; VerificationFailed exactly when both exist
\* and the proof fails.
C4_BlindSignErrorPrecedence ==
    \A w \in Workers :
        Finished(w, "blind_sign") =>
            /\ ~HadSession(w) => SameResponse(Response(w), SessionNotFound)
            /\ SameResponse(Response(w), ConstraintNotFound)
                   <=> (HadSession(w) /\ ~HadKey(w))
            /\ SameResponse(Response(w), VerificationFailed)
                   <=> (HadSession(w) /\ HadKey(w) /\ ~ProofVerifies(w))

\* C4 witness: blind-sign has answered for a hash that has a key and no
\* session, with a proof that does not verify.
C4_Witness ==
    \E w \in Workers :
        /\ Finished(w, "blind_sign")
        /\ ~HadSession(w)
        /\ HadKey(w)
        /\ ~ProofVerifies(w)

\* C5: blind-sign returns a blinded_signature exactly when the requested hash
\* has a TemporaryEntry and a PermanentEntry and the proof verifies, and the
\* signature is server_sign of that hash's private_key, that hash's
\* private_value and the request's blinded_message.
C5_BlindSignSignsWithOwnSecrets ==
    \A w \in Workers :
        Finished(w, "blind_sign") =>
            LET h == req[w].constraint_hash
            IN  /\ IsOk(Response(w), "blinded_signature")
                       <=> (HadSession(w) /\ HadKey(w) /\ ProofVerifies(w))
                /\ IsOk(Response(w), "blinded_signature") =>
                       Response(w).value =
                           server_sign(req[w].pre_permanent[h][1].private_key,
                                       req[w].pre_temporary[h][1].private_value,
                                       req[w].blinded_message)

\* C5 witness: blind-sign has returned a signature for one hash while another
\* hash holds a different key and a different session.
C5_Witness ==
    \E w \in Workers :
        /\ Finished(w, "blind_sign")
        /\ IsOk(Response(w), "blinded_signature")
        /\ \E h \in Hashes \ {req[w].constraint_hash} :
               /\ PermanentStorage[h] # <<>>
               /\ TemporaryStorage[h] # <<>>
               /\ PermanentStorage[h] # PermanentStorage[req[w].constraint_hash]
               /\ TemporaryStorage[h] # TemporaryStorage[req[w].constraint_hash]

\* C6: with a keypair and a session stored for the hash, a proof that fails
\* verification makes blind-sign answer 400 "Verification failed"; server_sign
\* is not called in that request and no blinded_signature is returned.
C6_FailedProofNeverSigns ==
    \A w \in Workers :
        (/\ Finished(w, "blind_sign")
         /\ HadSession(w)
         /\ HadKey(w)
         /\ ~ProofVerifies(w)) =>
            /\ Response(w).status = 400
            /\ Response(w).field = "error"
            /\ Response(w).value = "Verification failed"
            /\ Calls(req[w].engine, "server_sign") = 0
            /\ Calls(req[w].engine, "verify_message_fits_constraint") = 1

\* C6 witness: blind-sign has answered a request whose proof fails, for a hash
\* with a key and a session.
C6_Witness ==
    \E w \in Workers :
        /\ Finished(w, "blind_sign")
        /\ HadSession(w)
        /\ HadKey(w)
        /\ ~ProofVerifies(w)

\* C7: blind-sign changes neither table, whatever it answers.  After a
\* successful blind-sign the session of that hash is still stored with the
\* same values, and a blind-sign that directly follows it on the same hash
\* with a proof that verifies succeeds again.
C7_BlindSignLeavesStores ==
    \A w \in Workers :
        Finished(w, "blind_sign") =>
            /\ StoresUntouched(w)
            /\ IsOk(Response(w), "blinded_signature") =>
                   /\ TemporaryStorage[req[w].constraint_hash] # <<>>
                   /\ TemporaryStorage[req[w].constraint_hash] =
                          req[w].pre_temporary[req[w].constraint_hash]
            /\ (/\ Follows(w, "blind_sign")
                /\ IsOk(Before(w), "blinded_signature")
                /\ ProofVerifies(w)) =>
                   IsOk(Response(w), "blinded_signature")

\* C7 witness: a second blind-sign on the same session has succeeded right
\* after a successful one.
C7_Witness ==
    \E w \in Workers :
        /\ Finished(w, "blind_sign")
        /\ Follows(w, "blind_sign")
        /\ IsOk(Before(w), "blinded_signature")
        /\ IsOk(Response(w), "blinded_signature")

\* C8: close-sign-session always answers success, also for a hash with no
\* TemporaryEntry or no PermanentEntry; afterwards that hash has no
\* TemporaryEntry and the Key Store is as before.
C8_CloseSessionAlwaysSucceeds ==
    \A w \in Workers :
        Finished(w, "close_sign_session") =>
            /\ SameResponse(Response(w), Success)
            /\ TemporaryStorage[req[w].constraint_hash] = <<>>
            /\ PermanentStorage = req[w].pre_permanent

\* C8 witness: close-sign-session has answered for a hash that had neither a
\* session nor a key.
C8_Witness ==
    \E w \in Workers :
        /\ Finished(w, "close_sign_session")
        /\ ~HadSession(w)
        /\ ~HadKey(w)

\* C9: delete-key for a hash with no PermanentEntry answers 404 "Constraint
\* hash not found" and changes neither table; so does a delete-key that
\* directly follows a successful delete-key for the same hash.
C9_DeleteUnknownKeyFails ==
    \A w \in Workers :
        Finished(w, "delete_key") =>
            /\ ~HadKey(w) =>
                   /\ Response(w).status = 404
                   /\ Response(w).field = "error"
                   /\ Response(w).value = "Constraint hash not found"
                   /\ StoresUntouched(w)
            /\ (Follows(w, "delete_key") /\ IsOk(Before(w), "success")) =>
                   /\ SameResponse(Response(w), ConstraintNotFound)
                   /\ StoresUntouched(w)

\* C9 witness: a delete-key has answered right after a successful delete-key
\* for the same hash.
C9_Witness ==
    \E w \in Workers :
        /\ Finished(w, "delete_key")
        /\ Follows(w, "delete_key")
        /\ IsOk(Before(w), "success")

\* C10: a successful delete-key removes the PermanentEntry of the requested
\* hash and nothing else: the other keys and the whole Session Store are as
\* before, so a session of that hash outlives its key, and a blind-sign that
\* follows on that hash answers ConstraintNotFound, not SessionNotFound.
C10_DeleteKeyDoesNotCascade ==
    \A w \in Workers :
        /\ (Finished(w, "delete_key") /\ IsOk(Response(w), "success")) =>
               /\ PermanentStorage[req[w].constraint_hash] = <<>>
               /\ \A h \in Hashes \ {req[w].constraint_hash} :
                      PermanentStorage[h] = req[w].pre_permanent[h]
               /\ TemporaryStorage = req[w].pre_temporary
        /\ (/\ Finished(w, "blind_sign")
            /\ Follows(w, "delete_key")
            /\ IsOk(Before(w), "success")
            /\ HadSession(w)) =>
               SameResponse(Response(w), ConstraintNotFound)

\* C10 witness: blind-sign has answered for a hash whose key was just deleted
\* and whose session is still stored.
C10_Witness ==
    \E w \in Workers :
        /\ Finished(w, "blind_sign")
        /\ Follows(w, "delete_key")
        /\ IsOk(Before(w), "success")
        /\ HadSession(w)
        /\ TemporaryStorage[req[w].constraint_hash] # <<>>
        /\ PermanentStorage[req[w].constraint_hash] = <<>>

\* ------------------------------------------------- concurrent requests

\* The Key Store and Session Store contents that requests made one after the
\* other leave behind: per constraint_hash no entry, or one entry holding a
\* pair of the generator.
KeyTables ==
    [Hashes -> {<<>>} \cup
               { <<PermanentEntry(p[1], p[2])>> : p \in server_generate_keypair }]

SessionTables ==
    [Hashes -> {<<>>} \cup
               { <<TemporaryEntry(p[1], p[2])>> : p \in server_generate_session }]

\* The server with any such contents and no request running.
InitConc ==
    /\ PermanentStorage \in KeyTables
    /\ TemporaryStorage \in SessionTables
    /\ req = [w \in Workers |-> Idle]
    /\ prev = NoPrev

\* Requests arrive while others are running, one per worker, and the steps of
\* their handlers interleave in every order.
NextConc ==
    \E w \in Workers :
        \/ FirstIdle(w) /\ Request(w)
        \/ Handle(w)

SpecConc == InitConc /\ [][NextConc]_vars

\* Workers v and w have both answered a request to `op` for the same
\* constraint_hash.
BothFinished(v, w, op) ==
    /\ v # w
    /\ Finished(v, op)
    /\ Finished(w, op)
    /\ req[v].constraint_hash = req[w].constraint_hash

\* Every request other than that of worker w is a request to `op` for the
\* constraint_hash of w.
OthersOnly(w, op) ==
    \A v \in Workers \ {w} :
        \/ req[v].pc = "idle"
        \/ /\ req[v].op = op
           /\ req[v].constraint_hash = req[w].constraint_hash

\* C11: of two concurrent generate-keypair requests for a constraint_hash that
\* had no PermanentEntry, at most one calls the keypair generator, and both
\* return the same public_key.
C11_ConcurrentGenerateKeypairOnce ==
    \A v, w \in Workers :
        (BothFinished(v, w, "generate_keypair") /\ ~HadKey(v)) =>
            /\ Calls(req[v].engine, "server_generate_keypair")
                   + Calls(req[w].engine, "server_generate_keypair") <= 1
            /\ SameResponse(Response(v), Response(w))

\* C12: with two concurrent create-sign-session requests for a constraint_hash
\* that has a PermanentEntry and had no TemporaryEntry, the hash never has more
\* than one TemporaryEntry, and both requests return the same public_value,
\* that of the stored TemporaryEntry.
C12_ConcurrentCreateSessionOnce ==
    \A v, w \in Workers :
        (/\ req[v].op = "create_sign_session"
         /\ req[w].op = "create_sign_session"
         /\ v # w
         /\ req[v].constraint_hash = req[w].constraint_hash
         /\ HadKey(v)
         /\ ~HadSession(v)) =>
            /\ Len(TemporaryStorage[req[v].constraint_hash]) <= 1
            /\ BothFinished(v, w, "create_sign_session") =>
                   /\ SameResponse(Response(v), Response(w))
                   /\ IsOk(Response(v), "public_value")
                   /\ TemporaryStorage[req[v].constraint_hash] # <<>>
                   /\ Response(v).value =
                          TemporaryStorage[req[v].constraint_hash][1].public_value

\* Worker w takes the step that leaves the handler position `pc`.
Leaves(w, pc) == req[w].pc = pc /\ req'[w].pc # pc

\* C13: when a blind-sign interleaves with delete-key requests for the same
\* constraint_hash, server_sign is called only while the PermanentEntry and the
\* TemporaryEntry that blind-sign read are still stored.
C13_SignOnlyWithStoredKey ==
    [][\A w \in Workers :
           (Leaves(w, "blind_sign_sign") /\ OthersOnly(w, "delete_key")) =>
               /\ find_permanent(PermanentStorage, req[w].constraint_hash)
                      = req[w].permanent_entry
               /\ find_temporary(TemporaryStorage, req[w].constraint_hash)
                      = req[w].temporary_entry]_vars

\* C14: every constraint_hash has at most one PermanentEntry at any time, and
\* an entry that stays stored keeps its (private_key, public_key): no step
\* stores over or next to an existing PermanentEntry.
C14_OneImmutableKeyPerHash ==
    [][\A h \in Hashes :
           /\ Len(PermanentStorage[h]) <= 1
           /\ Len(PermanentStorage'[h]) <= 1
           /\ (PermanentStorage[h] # <<>> /\ PermanentStorage'[h] # <<>>) =>
                  PermanentStorage'[h] = PermanentStorage[h]]_vars

\* C16: when a create-sign-session interleaves with delete-key requests for
\* the same constraint_hash, store_temporary runs only while a PermanentEntry
\* of that hash is stored.
C16_SessionStoredOnlyWithKey ==
    [][\A w \in Workers :
           (/\ Leaves(w, "create_sign_session_store")
            /\ OthersOnly(w, "delete_key")) =>
               find_permanent(PermanentStorage, req[w].constraint_hash) # <<>>]_vars

\* The secret and the public halves of what the generators return.
PrivateKeys == { p[1] : p \in server_generate_keypair }
PublicKeys == { p[2] : p \in server_generate_keypair }
PrivateValues == { p[1] : p \in server_generate_session }
PublicValues == { p[2] : p \in server_generate_session }

\* C15: no response carries a private_key or a private_value.  A response is
\* a public_key, a public_value, a blinded_signature computed by server_sign,
\* the success flag or one of the three fixed error messages.
C15_NoSecretInResponse ==
    \A w \in Workers :
        req[w].pc = "done" =>
            LET body == Response(w)
            IN  /\ body.field \in {"public_key", "public_value",
                                   "blinded_signature", "success", "error"}
                /\ body.field = "public_key" =>
                       body.value \in PublicKeys \ (PrivateKeys \cup PrivateValues)
                /\ body.field = "public_value" =>
                       body.value \in PublicValues \ (PrivateKeys \cup PrivateValues)
                /\ body.field = "blinded_signature" =>
                       \E private_key \in PrivateKeys,
                          private_value \in PrivateValues :
                           body.value = server_sign(private_key, private_value,
                                                    req[w].blinded_message)
                /\ body.field = "success" => body.value = TRUE
                /\ body.field = "error" =>
                       body.value \in {"Constraint hash not found",
                                       "Session not found",
                                       "Verification failed"}

\* C15 witness: generate-keypair has answered while holding the private_key it
\* has just generated and stored.
C15_Witness ==
    \E w \in Workers :
        /\ Finished(w, "generate_keypair")
        /\ req[w].generated # <<>>
        /\ PermanentStorage[req[w].constraint_hash][1].private_key
               = req[w].generated[1]

\* The pairs the session generator returns, as TemporaryEntry rows.
GeneratedSessions ==
    { TemporaryEntry(p[1], p[2]) : p \in server_generate_session }

\* C17: however close-sign-session, create-sign-session and blind-sign
\* interleave, every stored TemporaryEntry holds the private_value and the
\* public_value of one session-generator call, and a public_value returned by
\* create-sign-session is the public half of such a pair: that of the entry
\* the request read, or that of the pair the request generated and stored.
C17_SessionPairsNeverMixed ==
    /\ \A h \in Hashes :
           \A i \in DOMAIN TemporaryStorage[h] :
               TemporaryStorage[h][i] \in GeneratedSessions
    /\ \A w \in Workers :
           /\ req[w].temporary_entry # <<>> =>
                  req[w].temporary_entry[1] \in GeneratedSessions
           /\ (/\ Finished(w, "create_sign_session")
               /\ Response(w).status = 200) =>
                  /\ Response(w).field = "public_value"
                  /\ IF req[w].temporary_entry # <<>>
                     THEN Response(w).value =
                              req[w].temporary_entry[1].public_value
                     ELSE /\ req[w].generated \in server_generate_session
                          /\ Response(w).value = req[w].generated[2]

\* C17 witness: create-sign-session has returned the public_value of a session
\* that a concurrent close-sign-session for the same hash has deleted.
C17_Witness ==
    \E v, w \in Workers :
        /\ Finished(w, "create_sign_session")
        /\ Finished(v, "close_sign_session")
        /\ req[v].constraint_hash = req[w].constraint_hash
        /\ req[w].temporary_entry # <<>>
        /\ IsOk(Response(w), "public_value")
        /\ TemporaryStorage[req[w].constraint_hash] = <<>>

\* C18: entries appear and disappear only through their own operation.  While
\* a request runs and once it has answered, the PermanentEntry of every hash
\* is as the request found it, except that generate-keypair may have created
\* one where there was none and delete-key may have removed one; likewise the
\* TemporaryEntry, with create-sign-session and close-sign-session.
C18_OnlyDesignatedOperations ==
    \A w \in Workers :
        req[w].pc # "idle" =>
            \A h \in Hashes :
                /\ \/ PermanentStorage[h] = req[w].pre_permanent[h]
                   \/ /\ req[w].op = "generate_keypair"
                      /\ req[w].pre_permanent[h] = <<>>
                   \/ /\ req[w].op = "delete_key"
                      /\ PermanentStorage[h] = <<>>
                /\ \/ TemporaryStorage[h] = req[w].pre_temporary[h]
                   \/ /\ req[w].op = "create_sign_session"
                      /\ req[w].pre_temporary[h] = <<>>
                   \/ /\ req[w].op = "close_sign_session"
                      /\ TemporaryStorage[h] = <<>>

\* C18 witness: close-sign-session has removed the session of a hash whose key
\* is still stored.
C18_Witness ==
    \E w \in Workers :
        /\ Finished(w, "close_sign_session")
        /\ HadSession(w)
        /\ HadKey(w)
        /\ PermanentStorage[req[w].constraint_hash] # <<>>
        /\ TemporaryStorage[req[w].constraint_hash] = <<>>

\* Every other worker is idle or handles a request for another hash.
OthersElsewhere(w) ==
    \A v \in Workers \ {w} :
        \/ req[v].pc = "idle"
        \/ req[v].constraint_hash # req[w].constraint_hash

\* The answer of the finished request of worker w and the entries of its
\* hash are those that follow from the entries the request found for its own
\* hash, its blinded_message and its proof, and from nothing else.
OwnHashOutcome(w) ==
    LET h == req[w].constraint_hash
        key == req[w].pre_permanent[h]
        session == req[w].pre_temporary[h]
        KeyKept == PermanentStorage[h] = key
        SessionKept == TemporaryStorage[h] = session
    IN  /\ req[w].op = "generate_keypair" =>
               /\ SessionKept
               /\ IF key # <<>>
                  THEN /\ KeyKept
                       /\ SameResponse(Response(w),
                              jsonify(200, "public_key", key[1].public_key))
                  ELSE \E p \in server_generate_keypair :
                           /\ PermanentStorage[h] = <<PermanentEntry(p[1], p[2])>>
                           /\ SameResponse(Response(w),
                                  jsonify(200, "public_key", p[2]))
        /\ req[w].op = "create_sign_session" =>
               /\ KeyKept
               /\ IF key = <<>>
                  THEN SessionKept /\ SameResponse(Response(w), ConstraintNotFound)
                  ELSE IF session # <<>>
                  THEN /\ SessionKept
                       /\ SameResponse(Response(w),
                              jsonify(200, "public_value", session[1].public_value))
                  ELSE \E p \in server_generate_session :
                           /\ TemporaryStorage[h] = <<TemporaryEntry(p[1], p[2])>>
                           /\ SameResponse(Response(w),
                                  jsonify(200, "public_value", p[2]))
        /\ req[w].op = "close_sign_session" =>
               /\ KeyKept
               /\ TemporaryStorage[h] = <<>>
               /\ SameResponse(Response(w), Success)
        /\ req[w].op = "blind_sign" =>
               /\ KeyKept
               /\ SessionKept
               /\ SameResponse(Response(w),
                      IF session = <<>> THEN SessionNotFound
                      ELSE IF key = <<>> THEN ConstraintNotFound
                      ELSE IF ~ProofVerifies(w) THEN VerificationFailed
                      ELSE jsonify(200, "blinded_signature",
                               server_sign(key[1].private_key,
                                           session[1].private_value,
                                           req[w].blinded_message)))
        /\ req[w].op = "delete_key" =>
               /\ SessionKept
               /\ IF key = <<>>
                  THEN KeyKept /\ SameResponse(Response(w), ConstraintNotFound)
                  ELSE /\ PermanentStorage[h] = <<>>
                       /\ SameResponse(Response(w), Success)

\* C19: requests on distinct hashes are isolated.  A step of the request of
\* worker w for hash h leaves the PermanentEntry and the TemporaryEntry of
\* every other hash unchanged; when every other request is for another hash,
\* the finished request has the outcome that follows from the entries of h
\* and its proof alone; and a request that has not yet answered can always
\* take its next step, whatever the other requests are doing.
C19_CrossHashIsolation ==
    [][/\ \A w \in Workers :
              (req'[w] # req[w] /\ req[w].pc # "idle") =>
                  \A h \in Hashes \ {req[w].constraint_hash} :
                      /\ PermanentStorage'[h] = PermanentStorage[h]
                      /\ TemporaryStorage'[h] = TemporaryStorage[h]
       /\ \A w \in Workers :
              (req'[w].pc = "done" /\ OthersElsewhere(w)') => OwnHashOutcome(w)'
       /\ \A w \in Workers :
              req[w].pc \notin {"idle", "done"} => ENABLED Handle(w)]_vars

\* C19 witness: two requests for different hashes ran at the same time and
\* both changed a table: each finds an entry of the other's hash different
\* from what it was when it started.
C19_Witness ==
    \E v, w \in Workers :
        /\ req[v].pc = "done" /\ req[w].pc = "done"
        /\ req[v].constraint_hash # req[w].constraint_hash
        /\ \/ PermanentStorage[req[v].constraint_hash]
                  # req[w].pre_permanent[req[v].constraint_hash]
           \/ TemporaryStorage[req[v].constraint_hash]
                  # req[w].pre_temporary[req[v].constraint_hash]
        /\ \/ PermanentStorage[req[w].constraint_hash]
                  # req[v].pre_permanent[req[w].constraint_hash]
           \/ TemporaryStorage[req[w].constraint_hash]
                  # req[v].pre_temporary[req[w].constraint_hash]

\* ------------------------------------------------ Crypto Engine failures

\* A Crypto Engine call of the request of worker w raises.
Raise(w) ==
    \/ generate_keypair_generate_raises(w)
    \/ create_sign_session_generate_raises(w)
    \/ blind_sign_verify_raises(w)
    \/ blind_sign_sign_raises(w)

\* One request against any contents of the two tables, whose Crypto Engine
\* calls return or raise.
NextFail ==
    \E w \in Workers :
        \/ Quiet /\ FirstIdle(w) /\ Request(w)
        \/ Handle(w)
        \/ Raise(w)

SpecFail == InitConc /\ [][NextFail]_vars

\* A Crypto Engine call of the request of worker w has raised.
EngineFailed(w) == \E i \in DOMAIN req[w].engine : req[w].engine[i] = "raise"

\* C20: a Crypto Engine failure leaves no partial mutation.  A request during
\* which the keypair generator, the session generator, the proof verifier or
\* the signing transform failed is answered with a failure, never with a
\* success response, and both tables are as they were when it started.
C20_EngineFailureLeavesStores ==
    \A w \in Workers :
        EngineFailed(w) =>
            /\ req[w].pc = "done"
            /\ Response(w).status # 200
            /\ Response(w).field = "error"
            /\ StoresUntouched(w)

\* C20 witness: the signing transform failed after the session, the key and
\* the proof had all been accepted.
C20_Witness ==
    \E w \in Workers :
        /\ Finished(w, "blind_sign")
        /\ EngineFailed(w)
        /\ Calls(req[w].engine, "server_sign") = 1
        /\ HadKey(w) /\ HadSession(w) /\ ProofVerifies(w)

====
